---- MODULE Spec2Model ----
(***************************************************************************)
(* Device registry and concurrent reachability probing (src/app.py).       *)
(*                                                                         *)
(* Strings are sequences of code points, so that str.strip, str.lower and  *)
(* Python's lexicographic comparison of strings and tuples are computed,   *)
(* not assumed.  A dict is a TLA+ record: a record that has no "id" key is *)
(* a record whose DOMAIN lacks "id".                                       *)
(***************************************************************************)
EXTENDS Integers, Sequences, FiniteSets, Bags, TLC

VARIABLES
    \* ---- durable storage and the HTTP handlers ----
    disk,       \* devices.json: [exists |-> BOOLEAN, text |-> the JSON text]
    uuids,      \* how many uuid4() values have been generated so far
    everIds,    \* every id a record of devices.json has ever had
    last,       \* the last request handled: what it was given, did and answered
    junk,       \* -1 when devices.json holds disk.text; else the file is being
                \* or was written over and is no JSON text, of junk bytes
    thr,        \* thr[t]: the request the server's thread t handles, and where
                \* the thread is in its handler
    \* ---- one call of bulk_status(devices) ----
    devices,    \* the argument: a list of device dicts
    probe,      \* probe[i]: how the environment treats the i-th ping_host call
    pc,         \* where the calling thread is in bulk_status
    pool,       \* the ThreadPoolExecutor: "none", "open" or "shutdown"
    submitted,  \* how many devices the dict comprehension has submitted
    queue,      \* work items submitted and not yet picked up, in FIFO order
    running,    \* bag of work items being run by a worker thread
    finished,   \* bag of completed futures that as_completed has not yielded
    out,        \* the list `out`
    nsort,      \* how many times out.sort has been applied in this call
    prev        \* <<report>> of the previous call with these arguments, or <<>>

regvars   == <<disk, uuids, everIds, last, junk, thr>>
roundvars == <<devices, probe, pc, pool, submitted, queue, running, finished,
               out, nsort, prev>>
vars      == <<disk, uuids, everIds, last, junk, thr, devices, probe, pc, pool, submitted, queue,
               running, finished, out, nsort, prev>>

----------------------------------------------------------------------------
(* Bounds of the model. *)

\* longest device list given to bulk_status in SpecRound
MaxDevices == 2
\* longest device list given to bulk_status in SpecWide (above the pool cap)
WideDevices == 66
\* uuid4() values generated in one behaviour of Spec
MaxUuids == 4
\* records in devices.json when the server starts
MaxStored == 2

----------------------------------------------------------------------------
(* Strings. *)

Min(a, b) == IF a < b THEN a ELSE b
Max(a, b) == IF a > b THEN a ELSE b

\* str.lower on one code point: 'A'..'Z' -> 'a'..'z'
LowerChar(c) == IF c \in 65..90 THEN c + 32 ELSE c

\* str.lower
Lower(s) == [i \in 1..Len(s) |-> LowerChar(s[i])]

\* the characters str.strip() removes: tab, LF, VT, FF, CR, FS..US, space
IsSpace(c) == c \in (9..13) \cup (28..32)

RECURSIVE LStrip(_)
LStrip(s) == IF s # <<>> /\ IsSpace(Head(s)) THEN LStrip(Tail(s)) ELSE s

RECURSIVE RStrip(_)
RStrip(s) ==
    IF s # <<>> /\ IsSpace(s[Len(s)]) THEN RStrip(SubSeq(s, 1, Len(s) - 1)) ELSE s

\* str.strip
Strip(s) == RStrip(LStrip(s))

\* s < t for Python strings: lexicographic by code point, a proper prefix first
RECURSIVE StrLess(_, _)
StrLess(s, t) ==
    IF t = <<>> THEN FALSE
    ELSE IF s = <<>> THEN TRUE
    ELSE IF Head(s) # Head(t) THEN Head(s) < Head(t)
    ELSE StrLess(Tail(s), Tail(t))

\* str(uuid.uuid4()) for the n-th value generated: values never repeat
Uuid(n) == <<n>>

----------------------------------------------------------------------------
(* bulk_status: the sort. *)

\* SortKey without .lower()
SortKeyCaseSensitive(x) == <<x.name, x.ip>>

\* key=lambda x: (x["name"].lower(), x["ip"])
SortKey(x) == <<Lower(x.name), x.ip>>

\* k1 < k2 for two such tuples
KeyLess(k1, k2) ==
    \/ StrLess(k1[1], k2[1])
    \/ k1[1] = k2[1] /\ StrLess(k1[2], k2[2])

\* the place of s[i] in the sorted list: after the elements with a smaller
\* key and after the elements with an equal key that come before it in s
Rank(s, i) ==
    1 + Cardinality({j \in 1..Len(s) :
            \/ KeyLess(SortKey(s[j]), SortKey(s[i]))
            \/ SortKey(s[j]) = SortKey(s[i]) /\ j < i})

\* list.sort(key=...): the stable sort, elements with equal keys keep their
\* order in the list
SortByKey(s) ==
    [k \in 1..Len(s) |-> s[CHOOSE i \in 1..Len(s) : Rank(s, i) = k]]

----------------------------------------------------------------------------
(* ping_host and the worker pool. *)

\* max_workers=min(64, max(4, len(devices)))
PoolCap == 64
PoolFloor == 4

\* PoolWidth without the cap
PoolWidthUncapped(n) == Max(PoolFloor, n)

PoolWidth(n) == Min(PoolCap, Max(PoolFloor, n))

\* What the environment does to one submitted call:
\*   "rc0"          the ping process exits 0
\*   "rc1"          the ping process exits non-zero (host down, timeout)
\*   "run_raises"   subprocess.run raises (no ping tool, bad argument)
\*   "task_raises"  the future ends with an exception set, the case
\*                  fut.result() raising is written for
Outcomes == {"rc0", "rc1", "run_raises", "task_raises"}

\* ping_host(ip) when the ping process behaves as e: what the call does,
\* exc for an exception leaving it, val for the value returned
PingHost(ip, e) ==
    IF e = "run_raises" THEN [exc |-> FALSE, val |-> FALSE]
    ELSE [exc |-> FALSE, val |-> (e = "rc0")]

\* the state work item w leaves its future in
RunTask(w) ==
    IF w.env = "task_raises" THEN [exc |-> TRUE, val |-> FALSE]
    ELSE PingHost(w.ip, w.env)

\* WorkItem with every future mapped to the last device of the list
WorkItemLastDevice(i) ==
    [d |-> devices[Len(devices)], ip |-> devices[i].ip, env |-> probe[i]]

\* ex.submit(ping_host, d["ip"]): d for the i-th device: the work item, with
\* the dict value `futures` keeps for its future
WorkItem(i) == [d |-> devices[i], ip |-> devices[i].ip, env |-> probe[i]]

\* online = False; try: online = fut.result(); except Exception: online = False
OnlineOf(res) == IF res.exc THEN FALSE ELSE res.val

\* the dict appended to out for future f
ResultOf(f) ==
    [id |-> f.d.id, name |-> f.d.name, ip |-> f.d.ip, online |-> OnlineOf(f.res)]

One(x) == SetToBag({x})

\* bulk_status is entered: out = [] and the executor is constructed
CreatePool ==
    /\ pc = "call"
    /\ out' = <<>>
    /\ pool' = "open"
    /\ pc' = "submit"
    /\ UNCHANGED <<regvars, devices, probe, submitted, queue, running,
                   finished, nsort, prev>>

\* one iteration of the dict comprehension: the next device is submitted
Submit ==
    /\ pc = "submit"
    /\ submitted < Len(devices)
    /\ queue' = Append(queue, WorkItem(submitted + 1))
    /\ submitted' = submitted + 1
    /\ UNCHANGED <<regvars, devices, probe, pc, pool, running, finished, out,
                   nsort, prev>>

\* the comprehension is exhausted: the for loop over as_completed begins
BeginCollect ==
    /\ pc = "submit"
    /\ submitted = Len(devices)
    /\ pc' = "collect"
    /\ UNCHANGED <<regvars, devices, probe, pool, submitted, queue, running,
                   finished, out, nsort, prev>>

\* Start in a pool whose threads each run one item and are not used again
StartOnce ==
    /\ pool = "open"
    /\ queue # <<>>
    /\ BagCardinality(running) + BagCardinality(finished) + Len(out)
           < PoolWidth(Len(devices))
    /\ running' = running (+) One(Head(queue))
    /\ queue' = Tail(queue)
    /\ UNCHANGED <<regvars, devices, probe, pc, pool, submitted, finished, out,
                   nsort, prev>>

\* a worker thread takes the oldest queued item; the pool has at most
\* max_workers threads
Start ==
    /\ pool = "open"
    /\ queue # <<>>
    /\ BagCardinality(running) < PoolWidth(Len(devices))
    /\ running' = running (+) One(Head(queue))
    /\ queue' = Tail(queue)
    /\ UNCHANGED <<regvars, devices, probe, pc, pool, submitted, finished, out,
                   nsort, prev>>

\* one running ping_host call ends and its future is set
Finish ==
    \E w \in BagToSet(running) :
        /\ running' = running (-) One(w)
        /\ finished' = finished (+) One([d |-> w.d, env |-> w.env, res |-> RunTask(w)])
        /\ UNCHANGED <<regvars, devices, probe, pc, pool, submitted, queue, out,
                       nsort, prev>>

\* LoopBody without the try/except around fut.result()
LoopBodyNoExcept(f) ==
    IF f.res.exc
    THEN out' = out /\ pc' = "raised"
    ELSE out' = Append(out, ResultOf(f)) /\ pc' = pc

\* the loop body for the yielded future f: an exception of fut.result() is
\* caught, and the dict is appended
LoopBody(f) ==
    /\ out' = Append(out, ResultOf(f))
    /\ pc' = pc

\* as_completed yields some completed future and the loop body runs
Collect ==
    /\ pc = "collect"
    /\ \E f \in BagToSet(finished) :
        /\ finished' = finished (-) One(f)
        /\ LoopBody(f)
    /\ UNCHANGED <<regvars, devices, probe, pool, submitted, queue, running,
                   nsort, prev>>

\* as_completed has yielded every future: the with block exits
ExitPool ==
    /\ pc = "collect"
    /\ Len(out) = Len(devices)
    /\ pool' = "shutdown"
    /\ pc' = "sort"
    /\ UNCHANGED <<regvars, devices, probe, submitted, queue, running, finished,
                   out, nsort, prev>>

\* out.sort(...); return out
SortAndReturn ==
    /\ pc = "sort"
    /\ out' = SortByKey(out)
    /\ nsort' = nsort + 1
    /\ pc' = "done"
    /\ UNCHANGED <<regvars, devices, probe, pool, submitted, queue, running,
                   finished, prev>>

\* bulk_status is called again with the same devices, which the environment
\* treats the same way
Rerun ==
    /\ pc = "done"
    /\ prev = <<>>
    /\ prev' = <<out>>
    /\ pc' = "call"
    /\ pool' = "none"
    /\ submitted' = 0
    /\ out' = <<>>
    /\ nsort' = 0
    /\ UNCHANGED <<regvars, devices, probe, queue, running, finished>>

----------------------------------------------------------------------------
(* Storage: devices.json, load_devices, save_devices. *)

\* json.dump of a list of dicts: one object per dict, an object being its
\* key/value pairs
JsonDump(devs) ==
    [i \in 1..Len(devs) |-> {<<k, devs[i][k]>> : k \in DOMAIN devs[i]}]

\* json.load of such a text: the list of dicts
JsonLoad(text) ==
    [i \in 1..Len(text) |->
        [k \in {p[1] : p \in text[i]} |-> (CHOOSE p \in text[i] : p[1] = k)[2]]]

NoFile == [exists |-> FALSE, text |-> <<>>]

\* devices.json after save_devices(devs)
SaveDevices(devs) == [exists |-> TRUE, text |-> JsonDump(devs)]

HasId(d) == "id" \in DOMAIN d

\* EnsureIds giving every dict a new id, also one that has an id
EnsureIdsOverwriting(data, u) ==
    [i \in 1..Len(data) |-> ("id" :> Uuid(u + i)) @@ data[i]]

\* the loop of load_devices: each dict without "id" gets the next uuid4();
\* u uuids were generated before
RECURSIVE EnsureIds(_, _)
EnsureIds(data, u) ==
    IF data = <<>> THEN <<>>
    ELSE IF HasId(Head(data))
         THEN <<Head(data)>> \o EnsureIds(Tail(data), u)
         ELSE <<("id" :> Uuid(u + 1)) @@ Head(data)>> \o EnsureIds(Tail(data), u + 1)

Missing(data) == Cardinality({i \in 1..Len(data) : ~HasId(data[i])})

\* LoadDevices without save_devices(data) after ids were assigned
LoadDevicesNoPersist(d, u) ==
    LET d1 == IF d.exists THEN d ELSE [exists |-> TRUE, text |-> <<>>]
        raw == JsonLoad(d1.text)
        data == EnsureIds(raw, u)
    IN  [data |-> data,
         disk |-> d1,
         uuids |-> u + Missing(raw),
         saves |-> IF d.exists THEN 0 ELSE 1]

\* load_devices() with devices.json as d and u uuids generated before:
\*   data   the list returned
\*   disk   devices.json afterwards
\*   uuids  the uuids generated afterwards
\*   saves  the calls of save_devices made
LoadDevices(d, u) ==
    LET d1 == IF d.exists THEN d ELSE SaveDevices(<<>>)
        raw == JsonLoad(d1.text)
        data == EnsureIds(raw, u)
        updated == Missing(raw) > 0
    IN  [data |-> data,
         disk |-> IF updated THEN SaveDevices(data) ELSE d1,
         uuids |-> u + Missing(raw),
         saves |-> (IF d.exists THEN 0 ELSE 1) + (IF updated THEN 1 ELSE 0)]

----------------------------------------------------------------------------
(* The HTTP handlers.  A handler's result is                                *)
(*   status, body   the response                                           *)
(*   disk, uuids    devices.json and the uuid count afterwards             *)
(*   loads, saves   the calls of load_devices made, and of save_devices    *)
(*   loaded         <<the list load_devices returned>>, or <<>>            *)

\* data.get(k) or ""
GetOrEmpty(data, k) == IF k \in DOMAIN data THEN data[k] ELSE <<>>

\* Field without .strip()
FieldNoStrip(data, k) == GetOrEmpty(data, k)

\* (data.get(k) or "").strip()
Field(data, k) == Strip(GetOrEmpty(data, k))

\* IsDuplicate comparing names
IsDuplicateByName(devs, name, ip) == \E i \in 1..Len(devs) : devs[i].name = name

\* any(d["ip"] == ip for d in devices)
IsDuplicate(devs, name, ip) == \E i \in 1..Len(devs) : devs[i].ip = ip

\* WithNew with the new device put first
WithNewFirst(devs, new_dev) == <<new_dev>> \o devs

\* devices.append(new_dev)
WithNew(devs, new_dev) == Append(devs, new_dev)

\* add_device for the request body data
AddResult(d, u, data) ==
    LET name == Field(data, "name")
        ip == Field(data, "ip")
        ld == LoadDevices(d, u)
        new_dev == [id |-> Uuid(ld.uuids + 1), name |-> name, ip |-> ip]
    IN  IF name = <<>> \/ ip = <<>>
        THEN [status |-> 400, body |-> <<>>, disk |-> d, uuids |-> u,
              loads |-> 0, saves |-> 0, loaded |-> <<>>]
        ELSE IF IsDuplicate(ld.data, name, ip)
        THEN [status |-> 409, body |-> <<>>, disk |-> ld.disk, uuids |-> ld.uuids,
              loads |-> 1, saves |-> ld.saves, loaded |-> <<ld.data>>]
        ELSE [status |-> 201, body |-> <<new_dev>>,
              disk |-> SaveDevices(WithNew(ld.data, new_dev)),
              uuids |-> ld.uuids + 1,
              loads |-> 1, saves |-> ld.saves + 1, loaded |-> <<ld.data>>]

\* Without keeping the records it should drop
WithoutInverted(devs, dev_id) == SelectSeq(devs, LAMBDA x : x.id = dev_id)

\* [d for d in devices if d["id"] != dev_id]
Without(devs, dev_id) == SelectSeq(devs, LAMBDA x : x.id # dev_id)

\* NothingRemoved testing new_list for emptiness
NothingRemovedIfEmpty(new_list, devs) == new_list = <<>>

\* len(new_list) == len(devices)
NothingRemoved(new_list, devs) == Len(new_list) = Len(devs)

\* delete_device(dev_id)
DeleteResult(d, u, dev_id) ==
    LET ld == LoadDevices(d, u)
        new_list == Without(ld.data, dev_id)
    IN  IF NothingRemoved(new_list, ld.data)
        THEN [status |-> 404, body |-> <<>>, disk |-> ld.disk, uuids |-> ld.uuids,
              loads |-> 1, saves |-> ld.saves, loaded |-> <<ld.data>>]
        ELSE [status |-> 200, body |-> <<>>, disk |-> SaveDevices(new_list),
              uuids |-> ld.uuids,
              loads |-> 1, saves |-> ld.saves + 1, loaded |-> <<ld.data>>]

\* get_devices()
GetResult(d, u) ==
    LET ld == LoadDevices(d, u)
    IN  [status |-> 200, body |-> ld.data, disk |-> ld.disk, uuids |-> ld.uuids,
         loads |-> 1, saves |-> ld.saves, loaded |-> <<ld.data>>]

IdsOf(devs) == {devs[i].id : i \in {j \in 1..Len(devs) : HasId(devs[j])}}

\* a request is handled from start to end: the handler's effects, and the
\* record of the request in `last`; a behaviour generates at most MaxUuids
\* uuids
Handle(op, req, r) ==
    /\ r.uuids <= MaxUuids
    /\ disk' = r.disk
    /\ uuids' = r.uuids
    /\ everIds' = everIds \cup (IF r.disk.exists THEN IdsOf(JsonLoad(r.disk.text)) ELSE {})
    /\ last' = [op |-> op, req |-> req, status |-> r.status, body |-> r.body,
                loads |-> r.loads, saves |-> r.saves, loaded |-> r.loaded,
                before |-> disk, ubefore |-> uuids, everBefore |-> everIds]
    /\ UNCHANGED <<junk, thr, roundvars>>

\* request bodies of POST /api/devices: "name" and "ip" each absent, empty,
\* blank or a value with or without blanks around it
ReqNames == {<<>>, <<32>>, <<97>>, <<32, 66, 9>>}
ReqIps == {<<>>, <<32>>, <<49>>, <<32, 49>>, <<50, 10>>}
AddRequests ==
    {[name |-> n, ip |-> a] : n \in ReqNames, a \in ReqIps}
        \cup {[name |-> n] : n \in ReqNames} \cup {[ip |-> a] : a \in ReqIps}
        \cup {<<>>}

\* ids of DELETE /api/devices/<dev_id>: any id generated so far, or a string
\* that is no uuid
NotAUuid == <<0>>
DeleteRequests == {Uuid(k) : k \in 1..uuids} \cup {NotAUuid}

AddDevice ==
    \E data \in AddRequests :
        Handle("add", data, AddResult(disk, uuids, data))

DeleteDevice ==
    \E dev_id \in DeleteRequests :
        Handle("delete", [id |-> dev_id], DeleteResult(disk, uuids, dev_id))

GetDevices == Handle("get", <<>>, GetResult(disk, uuids))

----------------------------------------------------------------------------
(* The states the server and bulk_status start in. *)

\* the request threads of the server (app.run serves each request in a
\* thread of its own)
Threads == {1, 2, 3}

\* a thread that has no request
IdleThread ==
    [pc |-> "idle", op |-> "none", req |-> <<>>, data |-> <<>>,
     towrite |-> <<>>, ret |-> "none", status |-> 0, body |-> <<>>,
     during |-> {}]

NoThreads == [t \in Threads |-> IdleThread]

NoRequest ==
    [op |-> "none", req |-> <<>>, status |-> 0, body |-> <<>>, loads |-> 0,
     saves |-> 0, loaded |-> <<>>, before |-> NoFile, ubefore |-> 0,
     everBefore |-> {}]

\* no request has been handled and devices.json does not exist
RegistryAtRest ==
    /\ disk = NoFile
    /\ uuids = 0
    /\ everIds = {}
    /\ last = NoRequest
    /\ junk = -1
    /\ thr = NoThreads

\* no call of bulk_status is under way
RoundAtRest ==
    /\ devices = <<>>
    /\ probe = <<>>
    /\ pc = "idle"
    /\ pool = "none"
    /\ submitted = 0
    /\ queue = <<>>
    /\ running = EmptyBag
    /\ finished = EmptyBag
    /\ out = <<>>
    /\ nsort = 0
    /\ prev = <<>>

\* bulk_status(devs) is about to run, its pings treated as env says
RoundCalled(devs, env) ==
    /\ devices = devs
    /\ probe = env
    /\ pc = "call"
    /\ pool = "none"
    /\ submitted = 0
    /\ queue = <<>>
    /\ running = EmptyBag
    /\ finished = EmptyBag
    /\ out = <<>>
    /\ nsort = 0
    /\ prev = <<>>

\* names and addresses of the devices of SpecRound: "a", "A", "B" and "1", "10"
RoundNames == {<<97>>, <<65>>, <<66>>}
RoundIps == {<<49>>, <<49, 48>>}

\* device lists whose i-th device has the id Uuid(i)
DeviceLists(n, names, ips) ==
    {[i \in 1..n |-> [id |-> Uuid(i), name |-> nm[i], ip |-> ad[i]]] :
        nm \in [1..n -> names], ad \in [1..n -> ips]}

InitRound ==
    /\ RegistryAtRest
    /\ \E n \in 0..MaxDevices :
        \E devs \in DeviceLists(n, RoundNames, RoundIps), env \in [1..n -> Outcomes] :
            RoundCalled(devs, env)

NextPool ==
    \/ CreatePool
    \/ Submit
    \/ BeginCollect
    \/ Start
    \/ Finish
    \/ Collect
    \/ ExitPool
    \/ SortAndReturn

NextRound == NextPool \/ Rerun

SpecRound == InitRound /\ [][NextRound]_vars

\* Spec: the requests to the registry, handled one after another.
\* devices.json at the start: absent, or up to MaxStored records with names
\* and pairwise different addresses as add_device stores them, the k records
\* that have an id holding the ids generated so far, the others none
StoredNames == {<<97>>, <<66>>}
StoredIps == {<<49>>, <<50>>, <<51>>}

\* how many of the first i flags are set
RECURSIVE CountTrue(_, _)
CountTrue(flags, i) ==
    IF i = 0 THEN 0 ELSE CountTrue(flags, i - 1) + (IF flags[i] THEN 1 ELSE 0)

StoredLists ==
    UNION {
        {[i \in 1..n |->
            IF has[i]
            THEN [id |-> Uuid(CountTrue(has, i)), name |-> nm[i], ip |-> ad[i]]
            ELSE [name |-> nm[i], ip |-> ad[i]]] :
         nm \in [1..n -> StoredNames],
         ad \in {f \in [1..n -> StoredIps] :
                    \A i, j \in 1..n : i # j => f[i] # f[j]},
         has \in [1..n -> BOOLEAN]} :
        n \in 0..MaxStored}

Init ==
    /\ RoundAtRest
    /\ last = NoRequest
    /\ junk = -1
    /\ thr = NoThreads
    /\ \/ disk = NoFile /\ uuids = 0 /\ everIds = {}
       \/ \E devs \in StoredLists :
            /\ disk = SaveDevices(devs)
            /\ uuids = Cardinality(IdsOf(devs))
            /\ everIds = IdsOf(devs)

Next ==
    \/ AddDevice
    \/ DeleteDevice
    \/ GetDevices

Spec == Init /\ [][Next]_vars

\* SpecWide: device lists shorter than, as long as and longer than the pool's
\* floor and cap; the devices of a list are equal dicts, pinged alike
WideCounts == {PoolFloor - 1, PoolFloor + 1, WideDevices}

InitWide ==
    /\ RegistryAtRest
    /\ \E n \in WideCounts, e \in {"rc0", "rc1"} :
        RoundCalled([i \in 1..n |-> [id |-> Uuid(1), name |-> <<97>>, ip |-> <<49>>]],
                    [i \in 1..n |-> e])

SpecWide == InitWide /\ [][NextPool]_vars

\* SpecLive: the rounds of SpecWide under the scheduling of the code: the
\* thread in bulk_status runs on, an idle worker thread takes queued work,
\* and every ping returns (subprocess.run has a timeout). The pings of a
\* short list end in any one way, those of the long list all end with an
\* exception set on the future
LiveOutcomes(n) == IF n > PoolCap THEN {"task_raises"} ELSE Outcomes

InitLive ==
    /\ RegistryAtRest
    /\ \E n \in WideCounts : \E e \in LiveOutcomes(n) :
        RoundCalled([i \in 1..n |-> [id |-> Uuid(1), name |-> <<97>>, ip |-> <<49>>]],
                    [i \in 1..n |-> e])

Coordinator ==
    CreatePool \/ Submit \/ BeginCollect \/ Collect \/ ExitPool \/ SortAndReturn

SpecLive ==
    /\ InitLive
    /\ [][NextPool]_vars
    /\ WF_vars(Coordinator)
    /\ WF_vars(Start)
    /\ WF_vars(Finish)

----------------------------------------------------------------------------
(* The handlers step by step, for requests served by several threads.  A  *)
(* step is one access to devices.json with the computation up to the next *)
(* one: os.path.exists, open(.., "w"), the write of the text when the     *)
(* file is closed, and open(.., "r") with json.load.                      *)

\* the length of str(uuid.uuid4())
UuidBytes == 36

\* json.dump(.., indent=2) of one key and value: four blanks, "k": "v"
PairBytes(p) ==
    4 + (Len(p[1]) + 2) + 2 + ((IF p[1] = "id" THEN UuidBytes ELSE Len(p[2])) + 2)

RECURSIVE SumPairs(_)
SumPairs(ps) ==
    IF ps = {} THEN 0
    ELSE LET p == CHOOSE q \in ps : TRUE
         IN  PairBytes(p) + SumPairs(ps \ {p})

\* one object: "  {", the pairs on a line each separated by ",", "  }"
ObjectBytes(o) ==
    IF o = {} THEN 4
    ELSE 4 + SumPairs(o) + 2 * (Cardinality(o) - 1) + 4

RECURSIVE SumObjects(_)
SumObjects(text) ==
    IF text = <<>> THEN 0
    ELSE ObjectBytes(Head(text)) + SumObjects(Tail(text))

\* how many bytes json.dump(.., indent=2) writes for the text
TextBytes(text) ==
    IF text = <<>> THEN 2
    ELSE 2 + SumObjects(text) + 2 * (Len(text) - 1) + 2

\* how many bytes devices.json holds
FileBytes ==
    IF ~disk.exists THEN 0
    ELSE IF junk >= 0 THEN junk
    ELSE TextBytes(disk.text)

\* thread t is handling a request
Active(t) == thr[t].pc \notin {"idle", "done"}

\* thread t is the one the next request goes to: the threads are alike,
\* and are taken in the order of their numbers
Free(t) ==
    /\ thr[t].pc = "idle"
    /\ \A u \in Threads : u < t => thr[u].pc # "idle"

\* thread t sends its response
Answer(t, status, body) ==
    [thr[t] EXCEPT !.pc = "done", !.status = status, !.body = body]

\* thread t enters load_devices for a request; `during` notes which
\* requests were being handled at the same time
Begin(t, op, req) ==
    thr' = [u \in Threads |->
               IF u = t
               THEN [IdleThread EXCEPT !.pc = "exists", !.op = op, !.req = req,
                                       !.during = {v \in Threads \ {t} : Active(v)}]
               ELSE IF Active(u)
               THEN [thr[u] EXCEPT !.during = @ \cup {t}]
               ELSE thr[u]]

\* request bodies of POST /api/devices handled by the threads
ConcAdds ==
    {[name |-> <<97>>, ip |-> <<49>>], [name |-> <<97>>, ip |-> <<32, 50>>],
     [name |-> <<>>, ip |-> <<49>>]}

\* POST /api/devices reaches a thread: lines 96-100
AddRequest ==
    \E t \in Threads, data \in ConcAdds :
        /\ Free(t)
        /\ IF Field(data, "name") = <<>> \/ Field(data, "ip") = <<>>
           THEN thr' = [thr EXCEPT ![t] =
                           [IdleThread EXCEPT !.pc = "done", !.op = "add",
                                              !.req = data, !.status = 400]]
           ELSE Begin(t, "add", data)
        /\ UNCHANGED <<disk, uuids, everIds, last, junk, roundvars>>

\* DELETE /api/devices/<dev_id> reaches a thread
DeleteRequest ==
    \E t \in Threads, dev_id \in DeleteRequests :
        /\ Free(t)
        /\ Begin(t, "delete", [id |-> dev_id])
        /\ UNCHANGED <<disk, uuids, everIds, last, junk, roundvars>>

\* GET /api/devices reaches a thread
GetRequest ==
    \E t \in Threads :
        /\ Free(t)
        /\ Begin(t, "get", <<>>)
        /\ UNCHANGED <<disk, uuids, everIds, last, junk, roundvars>>

\* GET /api/status reaches a thread; one such request is followed
StatusRequest ==
    \E t \in Threads :
        /\ Free(t)
        /\ \A u \in Threads : thr[u].op # "status"
        /\ Begin(t, "status", <<>>)
        /\ UNCHANGED <<disk, uuids, everIds, last, junk, roundvars>>

\* line 13: if not os.path.exists(DEVICES_FILE): save_devices([])
Exists ==
    \E t \in Threads :
        /\ thr[t].pc = "exists"
        /\ thr' = [thr EXCEPT ![t] =
                     IF disk.exists
                     THEN [@ EXCEPT !.pc = "read"]
                     ELSE [@ EXCEPT !.pc = "open", !.towrite = <<>>, !.ret = "read"]]
        /\ UNCHANGED <<disk, uuids, everIds, last, junk, roundvars>>

\* line 28: open(DEVICES_FILE, "w") creates the file or cuts it to no bytes
Open ==
    \E t \in Threads :
        /\ thr[t].pc = "open"
        /\ disk' = [disk EXCEPT !.exists = TRUE]
        /\ junk' = 0
        /\ thr' = [thr EXCEPT ![t].pc = "close"]
        /\ UNCHANGED <<uuids, everIds, last, roundvars>>

\* line 29 and the end of the with block: the text json.dump put into the
\* file object's buffer is written from the start of the file, over what
\* the file holds by then; bytes behind the text stay
Close ==
    \E t \in Threads :
        /\ thr[t].pc = "close"
        /\ IF TextBytes(JsonDump(thr[t].towrite)) >= FileBytes
           THEN disk' = SaveDevices(thr[t].towrite) /\ junk' = -1
           ELSE disk' = disk /\ junk' = FileBytes
        /\ thr' = [thr EXCEPT ![t].pc = thr[t].ret]
        /\ UNCHANGED <<uuids, everIds, last, roundvars>>

\* lines 15-24: json.load of the file, which raises for a file that is no
\* JSON text (the request is answered 500); then the ids
Read ==
    \E t \in Threads :
        /\ thr[t].pc = "read"
        /\ IF junk >= 0
           THEN /\ thr' = [thr EXCEPT ![t] = Answer(t, 500, <<>>)]
                /\ uuids' = uuids
           ELSE LET raw == JsonLoad(disk.text)
                    data == EnsureIds(raw, uuids)
                IN  /\ uuids' = uuids + Missing(raw)
                    /\ thr' = [thr EXCEPT ![t] =
                                 IF Missing(raw) > 0
                                 THEN [@ EXCEPT !.data = data, !.towrite = data,
                                                !.ret = "loaded", !.pc = "open"]
                                 ELSE [@ EXCEPT !.data = data, !.pc = "loaded"]]
        /\ UNCHANGED <<disk, everIds, last, junk, roundvars>>

\* get_devices after load_devices has returned
GetLoaded ==
    \E t \in Threads :
        /\ thr[t].pc = "loaded"
        /\ thr[t].op = "get"
        /\ thr' = [thr EXCEPT ![t] = Answer(t, 200, thr[t].data)]
        /\ UNCHANGED <<disk, uuids, everIds, last, junk, roundvars>>

\* add_device after load_devices has returned: lines 103-110
AddLoaded ==
    \E t \in Threads :
        /\ thr[t].pc = "loaded"
        /\ thr[t].op = "add"
        /\ LET name == Field(thr[t].req, "name")
               ip == Field(thr[t].req, "ip")
               new_dev == [id |-> Uuid(uuids + 1), name |-> name, ip |-> ip]
           IN  IF IsDuplicate(thr[t].data, name, ip)
               THEN /\ thr' = [thr EXCEPT ![t] = Answer(t, 409, <<>>)]
                    /\ uuids' = uuids
               ELSE /\ thr' = [thr EXCEPT ![t] =
                                 [@ EXCEPT !.towrite = WithNew(thr[t].data, new_dev),
                                           !.status = 201, !.body = <<new_dev>>,
                                           !.ret = "done", !.pc = "open"]]
                    /\ uuids' = uuids + 1
        /\ UNCHANGED <<disk, everIds, last, junk, roundvars>>

\* delete_device after load_devices has returned: lines 115-119
DeleteLoaded ==
    \E t \in Threads :
        /\ thr[t].pc = "loaded"
        /\ thr[t].op = "delete"
        /\ LET new_list == Without(thr[t].data, thr[t].req.id)
           IN  thr' = [thr EXCEPT ![t] =
                         IF NothingRemoved(new_list, thr[t].data)
                         THEN Answer(t, 404, <<>>)
                         ELSE [@ EXCEPT !.towrite = new_list, !.status = 200,
                                        !.ret = "done", !.pc = "open"]]
        /\ UNCHANGED <<disk, uuids, everIds, last, junk, roundvars>>

\* StatusLoaded reading devices.json again for the list it hands to
\* bulk_status
StatusLoadedReread ==
    \E t \in Threads :
        /\ thr[t].pc = "loaded"
        /\ thr[t].op = "status"
        /\ pc = "idle"
        /\ thr' = [thr EXCEPT ![t].pc = "round"]
        /\ devices' = EnsureIds(JsonLoad(disk.text), uuids)
        /\ probe' \in [1..Len(devices') -> {"rc0", "rc1"}]
        /\ pc' = "call"
        /\ UNCHANGED <<disk, uuids, everIds, last, junk, pool, submitted, queue,
                       running, finished, out, nsort, prev>>

\* all_status after load_devices has returned: bulk_status(devices) is
\* called, its pings answered or not
StatusLoaded ==
    \E t \in Threads :
        /\ thr[t].pc = "loaded"
        /\ thr[t].op = "status"
        /\ pc = "idle"
        /\ thr' = [thr EXCEPT ![t].pc = "round"]
        /\ devices' = thr[t].data
        /\ probe' \in [1..Len(thr[t].data) -> {"rc0", "rc1"}]
        /\ pc' = "call"
        /\ UNCHANGED <<disk, uuids, everIds, last, junk, pool, submitted, queue,
                       running, finished, out, nsort, prev>>

\* bulk_status has returned: all_status answers with the report
StatusReturn ==
    \E t \in Threads :
        /\ thr[t].pc = "round"
        /\ pc = "done"
        /\ thr' = [thr EXCEPT ![t] = Answer(t, 200, out)]
        /\ UNCHANGED <<disk, uuids, everIds, last, junk, roundvars>>

\* SpecConc: each thread serves one request; devices.json at the start is
\* absent, or holds no record, or one record with or without an id
ConcLists ==
    {<<>>, <<[id |-> Uuid(1), name |-> <<97>>, ip |-> <<49>>]>>,
     <<[name |-> <<97>>, ip |-> <<49>>]>>}

InitConc ==
    /\ RoundAtRest
    /\ last = NoRequest
    /\ junk = -1
    /\ thr = NoThreads
    /\ \/ disk = NoFile /\ uuids = 0 /\ everIds = {}
       \/ \E devs \in ConcLists :
            /\ disk = SaveDevices(devs)
            /\ uuids = Cardinality(IdsOf(devs))
            /\ everIds = IdsOf(devs)

NextConc ==
    \/ AddRequest
    \/ DeleteRequest
    \/ GetRequest
    \/ StatusRequest
    \/ Exists
    \/ Open
    \/ Close
    \/ Read
    \/ GetLoaded
    \/ AddLoaded
    \/ DeleteLoaded
    \/ StatusLoaded
    \/ StatusReturn
    \/ NextPool

SpecConc == InitConc /\ [][NextConc]_vars

----------------------------------------------------------------------------
(* Claims about bulk_status. *)

\* what the i-th device's own ping says
ProbeOnline(i) == probe[i] = "rc0"

\* the result the i-th device is due
DueResult(i) ==
    [id |-> devices[i].id, name |-> devices[i].name, ip |-> devices[i].ip,
     online |-> ProbeOnline(i)]

\* C1: when bulk_status returns, the report pairs off one to one with the
\* input devices: some bijection between report positions and devices makes
\* every result the id, name and ip of its device with that device's own
\* ping outcome.
C1_OneResultPerDevice ==
    pc = "done" =>
        /\ Len(out) = Len(devices)
        /\ \E pi \in Permutations(1..Len(devices)) :
               \A k \in 1..Len(out) : out[k] = DueResult(pi[k])

\* a call over two devices with different outcomes has returned, the second
\* device's result first
C1_Witness ==
    /\ pc = "done"
    /\ Len(devices) = 2
    /\ ProbeOnline(1) /\ ~ProbeOnline(2)
    /\ out[1].id = devices[2].id
    /\ ~out[1].online /\ out[2].online

\* the key the report is to be sorted by: (lowercased name, ip)
ReportKey(r) == <<Lower(r.name), r.ip>>

\* a <= b for two such keys
ReportKeyLeq(a, b) ==
    \/ StrLess(a[1], b[1])
    \/ a[1] = b[1] /\ (a[2] = b[2] \/ StrLess(a[2], b[2]))

AllCollected ==
    /\ submitted = Len(devices)
    /\ queue = <<>>
    /\ running = EmptyBag
    /\ finished = EmptyBag
    /\ Len(out) = Len(devices)

\* C2: the returned report is ascending by (lowercased name, ip) at every
\* adjacent pair, and the sort has been applied only once every probe has
\* completed and been collected (and then once).
C2_SortedAfterAllCollected ==
    /\ pc = "done" =>
           \A k \in 1..(Len(out) - 1) :
               ReportKeyLeq(ReportKey(out[k]), ReportKey(out[k + 1]))
    /\ nsort > 0 => AllCollected /\ nsort = 1 /\ pc = "done"
    /\ pc = "done" => nsort = 1

\* "B" was submitted before "a" and the report has "a" first
C2_Witness ==
    /\ pc = "done"
    /\ Len(devices) = 2
    /\ devices[1].name = <<66>> /\ devices[2].name = <<97>>
    /\ out[1].name = <<97>> /\ out[2].name = <<66>>
    /\ nsort = 1

\* C3: a second call with the same devices and the same outcomes returns the
\* sequence the first call returned.
C3_SameReportEveryRun ==
    (pc = "done" /\ prev # <<>>) => out = prev[1]

\* C4: the probes started and not finished never exceed
\* W = min(64, max(4, n)), and never 64.
C4_InFlightBounded ==
    LET n == Len(devices)
        inflight == BagCardinality(running)
    IN  /\ inflight <= (IF n < 4 THEN 4 ELSE IF n > 64 THEN 64 ELSE n)
        /\ inflight <= 64

\* more than 64 devices: 64 probes are in flight and a task is waiting
C4_Witness ==
    /\ Len(devices) > 64
    /\ BagCardinality(running) = 64
    /\ queue # <<>>

\* C5: no exception leaves bulk_status or ping_host; the call returns a
\* result for every device, online = false for each device whose probe
\* failed in any way and, for every other device, its own outcome.
C5_ProbeFailureAbsorbed ==
    /\ pc # "raised"
    /\ \A f \in BagToSet(finished) : f.res.exc => f.env = "task_raises"
    /\ pc = "done" =>
           /\ Len(out) = Len(devices)
           /\ \A i \in 1..Len(devices) :
                  \E k \in 1..Len(out) :
                      /\ out[k].id = devices[i].id
                      /\ out[k].online = (probe[i] = "rc0")

\* a call has returned in which one task raised, one ping could not be run
\* and neither is reported online
C5_Witness ==
    /\ pc = "done"
    /\ Len(devices) = 2
    /\ probe[1] = "task_raises" /\ probe[2] = "rc0"
    /\ \E k \in 1..2 : out[k].id = devices[1].id /\ ~out[k].online
    /\ \E k \in 1..2 : out[k].id = devices[2].id /\ out[k].online

----------------------------------------------------------------------------
(* Claims about the registry's requests. *)

\* the stored collection before the last request, and now
StoredBefore == IF last.before.exists THEN JsonLoad(last.before.text) ELSE <<>>
StoredNow == IF disk.exists THEN JsonLoad(disk.text) ELSE <<>>

\* the last request's "name" and "ip", trimmed
Trimmed(k) == Strip(IF k \in DOMAIN last.req THEN last.req[k] ELSE <<>>)

\* b is a with an id given to each record that had none, and no other change
IdsFilledIn(a, b) ==
    /\ Len(a) = Len(b)
    /\ \A i \in 1..Len(a) :
        /\ HasId(b[i])
        /\ b[i].name = a[i].name
        /\ b[i].ip = a[i].ip
        /\ HasId(a[i]) => b[i].id = a[i].id

\* the writes load_devices makes by itself, given what was stored
LoadWrites ==
    (IF last.before.exists THEN 0 ELSE 1) + (IF Missing(StoredBefore) > 0 THEN 1 ELSE 0)

DuplicateAdd ==
    /\ last.op = "add"
    /\ \E i \in 1..Len(StoredBefore) : StoredBefore[i].ip = Trimmed("ip")

\* C6 as stated, for a request that has a name: an add whose trimmed ip is
\* the ip of a stored device is answered 409 and devices.json is afterwards
\* as it was before.
C6_DuplicateLeavesDiskUnchanged ==
    (DuplicateAdd /\ Trimmed("name") # <<>>) =>
        last.status = 409 /\ disk = last.before

\* C6 as amended: an add with a non-empty trimmed name whose trimmed ip is
\* the ip of a stored device is answered 409 and adds no record; the stored
\* collection keeps its length and every record's name, ip and id, except
\* that a record without an id is given one; where every record had an id
\* devices.json is not written.
C6_DuplicateAddsNothing ==
    (DuplicateAdd /\ Trimmed("name") # <<>>) =>
        /\ last.status = 409
        /\ last.body = <<>>
        /\ IdsFilledIn(StoredBefore, StoredNow)
        /\ last.saves = LoadWrites
        /\ Missing(StoredBefore) = 0 => disk = last.before /\ last.saves = 0

\* a duplicate add was refused and devices.json changed: a record got an id
C6_Witness ==
    /\ DuplicateAdd
    /\ last.status = 409
    /\ Missing(StoredBefore) > 0
    /\ disk # last.before
    /\ Len(StoredNow) = Len(StoredBefore)

\* C7: an add whose name or ip is empty once trimmed is answered 400 without
\* load_devices or save_devices being called: devices.json is as before,
\* also when it does not exist.
C7_InvalidAddTouchesNothing ==
    (last.op = "add" /\ (Trimmed("name") = <<>> \/ Trimmed("ip") = <<>>)) =>
        /\ last.status = 400
        /\ last.saves = 0
        /\ last.loads = 0
        /\ disk = last.before
        /\ uuids = last.ubefore

\* an add with a name and a blank ip was refused while devices.json does
\* not exist, and it still does not
C7_Witness ==
    /\ last.op = "add"
    /\ Trimmed("name") # <<>>
    /\ "ip" \in DOMAIN last.req /\ last.req.ip = <<32>>
    /\ last.status = 400
    /\ ~last.before.exists /\ ~disk.exists

UnknownDelete == last.op = "delete" /\ last.req.id \notin IdsOf(StoredBefore)
KnownDelete == last.op = "delete" /\ last.req.id \in IdsOf(StoredBefore)

\* C8 as stated: a remove of an id no stored device has is answered 404 and
\* save_devices is not called.
C8_UnknownRemoveNeverWrites ==
    UnknownDelete => last.status = 404 /\ last.saves = 0

\* C8 as amended: a remove of an id no stored device has is answered 404 and
\* writes no reduced collection; the only writes are those of load_devices
\* (the empty collection when devices.json does not exist, the ids of
\* records that had none), and where devices.json exists with an id on every
\* record nothing is written.
C8_UnknownRemoveWritesOnlyRepairs ==
    UnknownDelete =>
        /\ last.status = 404
        /\ disk.exists
        /\ IdsFilledIn(StoredBefore, StoredNow)
        /\ last.saves = LoadWrites
        /\ (last.before.exists /\ Missing(StoredBefore) = 0) =>
               disk = last.before /\ last.saves = 0

\* first use: a remove was answered 404 and devices.json was created
C8_Witness ==
    /\ UnknownDelete
    /\ last.status = 404
    /\ ~last.before.exists
    /\ last.saves = 1
    /\ disk.exists

\* devs without the record whose id is dev_id
Removed(devs, dev_id) == SelectSeq(devs, LAMBDA x : ~(HasId(x) /\ x.id = dev_id))

\* C9 as stated: a remove of a stored id is answered 200 and the stored
\* collection is the one before without that record, all else unchanged.
C9_RemoveLeavesOthersUnchanged ==
    KnownDelete =>
        /\ last.status = 200
        /\ StoredNow = Removed(StoredBefore, last.req.id)

\* C9 as amended: a remove of a stored id is answered 200 and the stored
\* collection is the one before without that record, the other records in
\* the same order with the same name, ip and id, except that a record
\* without an id is given one.
C9_RemoveExactlyThatRecord ==
    KnownDelete =>
        /\ last.status = 200
        /\ Len(StoredNow) = Len(StoredBefore) - 1
        /\ IdsFilledIn(Removed(StoredBefore, last.req.id), StoredNow)
        /\ last.req.id \notin IdsOf(StoredNow)
        /\ Missing(StoredBefore) = 0 => StoredNow = Removed(StoredBefore, last.req.id)

\* one of two stored records was removed and the other, which had no id,
\* was given one
C9_Witness ==
    /\ KnownDelete
    /\ last.status = 200
    /\ Len(StoredBefore) = 2
    /\ Missing(StoredBefore) = 1
    /\ Len(StoredNow) = 1
    /\ StoredNow # Removed(StoredBefore, last.req.id)

FreshAdd ==
    /\ last.op = "add"
    /\ Trimmed("name") # <<>>
    /\ Trimmed("ip") # <<>>
    /\ \A i \in 1..Len(StoredBefore) : StoredBefore[i].ip # Trimmed("ip")

\* the device the last request returned has the trimmed name and ip, an id
\* no record has or had, and is in what load_devices returns next
ReturnedNewDevice ==
    /\ last.status = 201
    /\ Len(last.body) = 1
    /\ last.body[1].name = Trimmed("name")
    /\ last.body[1].ip = Trimmed("ip")
    /\ last.body[1].id \notin last.everBefore
    /\ last.saves >= 1
    /\ \E i \in 1..Len(StoredNow) : LoadDevices(disk, uuids).data[i] = last.body[1]

\* C10 as stated: a valid add of an ip not stored is answered 201 with a
\* device of a new id, and the stored collection is the one before, no
\* record changed, with that device appended.
C10_AddAppendsOthersUnchanged ==
    FreshAdd =>
        /\ ReturnedNewDevice
        /\ StoredNow = Append(StoredBefore, last.body[1])

\* C10 as amended: a valid add of an ip not stored is answered 201 with a
\* device of a new id, and the stored collection is the one before with
\* that device appended, the records before it in the same order with the
\* same name, ip and id, except that a record without an id is given one,
\* different from the new device's.
C10_AddAppendsNewDevice ==
    FreshAdd =>
        /\ ReturnedNewDevice
        /\ Len(StoredNow) = Len(StoredBefore) + 1
        /\ StoredNow[Len(StoredNow)] = last.body[1]
        /\ IdsFilledIn(StoredBefore, SubSeq(StoredNow, 1, Len(StoredBefore)))
        /\ \A i \in 1..Len(StoredBefore) : StoredNow[i].id # last.body[1].id
        /\ Missing(StoredBefore) = 0 => StoredNow = Append(StoredBefore, last.body[1])

\* a device was added behind a record that had no id and now has one
C10_Witness ==
    /\ FreshAdd
    /\ last.status = 201
    /\ Len(StoredBefore) >= 1
    /\ Missing(StoredBefore) > 0
    /\ Len(StoredNow) = Len(StoredBefore) + 1
    /\ last.req.ip # Trimmed("ip")

\* no two records of devs have the same id, and no two the same ip
PairwiseDistinct(devs) ==
    \A i, j \in 1..Len(devs) :
        i # j =>
            /\ devs[i].ip # devs[j].ip
            /\ (HasId(devs[i]) /\ HasId(devs[j])) => devs[i].id # devs[j].id

\* C11: from a registry whose ids and ips are pairwise different, after any
\* adds and removes handled one after another, no two stored devices share
\* an id and no two share an ip.
C11_IdsAndIpsUnique == PairwiseDistinct(StoredNow)

\* a third device was added to two stored ones after an add of one of their
\* addresses had been refused or a record removed
C11_Witness ==
    /\ last.op = "add"
    /\ last.status = 201
    /\ Len(StoredNow) = 3
    /\ last.ubefore > Cardinality(IdsOf(StoredBefore))

\* C12: load_devices called again with no write in between returns the
\* collection the call before it returned, whatever devices.json held (no
\* file, no record, ids on all records, ids missing).
C12_LoadIdempotent ==
    last.op = "get" =>
        /\ LoadDevices(disk, uuids).data = last.body
        /\ LoadDevices(disk, uuids).saves = 0
        /\ LoadDevices(disk, uuids).disk = disk

\* load_devices has returned two records after giving an id to one of them
C12_Witness ==
    /\ last.op = "get"
    /\ Len(last.body) = 2
    /\ Missing(StoredBefore) = 1
    /\ last.saves = 1

\* C17: when load_devices has returned, every record returned and stored
\* has an id; a record that had none has a new one, stored, which the next
\* load returns; a record that had one keeps it; and devices.json, where it
\* existed, was written if and only if an id was missing.
C17_LoadAssignsMissingIds ==
    last.op = "get" =>
        /\ StoredNow = last.body
        /\ IdsFilledIn(StoredBefore, last.body)
        /\ \A i \in 1..Len(last.body) :
               ~HasId(StoredBefore[i]) =>
                   /\ last.body[i].id \notin last.everBefore
                   /\ \A j \in 1..Len(last.body) :
                          j # i => last.body[j].id # last.body[i].id
        /\ LoadDevices(disk, uuids).data = last.body
        /\ last.before.exists => (last.saves > 0 <=> Missing(StoredBefore) > 0)
        /\ (last.before.exists /\ Missing(StoredBefore) = 0) => disk = last.before

\* load_devices has returned a record that kept its id and one that was
\* given one
C17_Witness ==
    /\ last.op = "get"
    /\ Len(last.body) = 2
    /\ HasId(StoredBefore[1]) /\ ~HasId(StoredBefore[2])
    /\ last.body[1].id = StoredBefore[1].id
    /\ HasId(StoredNow[2])

\* C15: bulk_status called with an empty list returns an empty report with
\* no worker pool created and no probe started.
C15_EmptyListNoPool ==
    Len(devices) = 0 =>
        /\ pool = "none"
        /\ queue = <<>>
        /\ running = EmptyBag
        /\ finished = EmptyBag
        /\ pc = "done" => out = <<>>

\* every task was run and its result collected, and bulk_status has returned
RoundOver ==
    /\ pc = "done"
    /\ pool = "shutdown"
    /\ submitted = Len(devices)
    /\ Len(out) = Len(devices)
    /\ queue = <<>>
    /\ running = EmptyBag
    /\ finished = EmptyBag

\* C16: when every ping returns, a round of any number of devices, also more
\* than the pool is wide, ends: every task gets a worker, every result is
\* collected and bulk_status returns; while collecting, the coordinator can
\* step whenever no ping is outstanding.
C16_RoundTerminates ==
    /\ <>RoundOver
    /\ []((pc = "collect" /\ queue = <<>> /\ running = EmptyBag)
            => ENABLED (Collect \/ ExitPool))

\* a round of more devices than the pool has workers has returned
C16_Witness ==
    /\ RoundOver
    /\ Len(devices) > PoolWidth(Len(devices))

----------------------------------------------------------------------------
(* Claims about requests handled at the same time. *)

\* the report has one result for each device of the list snap, and no other
ReportOf(report, snap) ==
    /\ Len(report) = Len(snap)
    /\ \A j \in 1..Len(snap) :
        Cardinality({i \in 1..Len(report) :
            /\ report[i].id = snap[j].id
            /\ report[i].name = snap[j].name
            /\ report[i].ip = snap[j].ip}) = 1

\* thread t is between the return of load_devices in all_status and the
\* return of bulk_status
InRound(t) == thr[t].op = "status" /\ thr[t].pc \in {"loaded", "round"}

\* C13: a probe round works on the list all_status loaded: requests that
\* add or remove devices meanwhile change neither the devices probed nor
\* the devices reported, the round can always take its next step and no
\* exception leaves it, and from the return of load_devices to the return
\* of bulk_status the thread writes nothing to devices.json.
C13_RoundOnSnapshot ==
    /\ [](\A t \in Threads :
            /\ thr[t].pc = "round" =>
                /\ devices = thr[t].data
                /\ pc # "raised"
                /\ pc # "done" => ENABLED NextPool
            /\ (thr[t].op = "status" /\ thr[t].pc = "done" /\ thr[t].status = 200)
                => ReportOf(thr[t].body, thr[t].data))
    /\ [][\A t \in Threads :
            (InRound(t) /\ (thr'[t] # thr[t] \/ roundvars' # roundvars))
                => (disk' = disk /\ junk' = junk)]_vars

\* a round has reported its devices although a request handled meanwhile
\* has changed the stored list
C13_Witness ==
    \E t, u \in Threads :
        /\ thr[t].op = "status" /\ thr[t].pc = "done" /\ thr[t].status = 200
        /\ Len(thr[t].body) > 0
        /\ u \in thr[t].during
        /\ thr[u].pc = "done"
        /\ thr[u].op \in {"add", "delete"} /\ thr[u].status \in {200, 201}
        /\ junk = -1
        /\ JsonLoad(disk.text) # thr[t].data

\* C14: a load that runs while another thread is in save_devices gets the
\* whole list from before the write or the whole list after it: json.load
\* never meets a file that is empty, cut short or written in part.
C14_LoadSeesWholeCollection ==
    \A t \in Threads : ~(thr[t].pc = "done" /\ thr[t].status = 500)

\* the list devices.json holds, none when the file is no JSON text
StoredConc == IF disk.exists /\ junk = -1 THEN JsonLoad(disk.text) ELSE <<>>

\* thread t has answered 201 to an add
Added(t) == thr[t].op = "add" /\ thr[t].pc = "done" /\ thr[t].status = 201

\* thread t has answered 200 to a remove
Deleted(t) == thr[t].op = "delete" /\ thr[t].pc = "done" /\ thr[t].status = 200

\* C18: with add requests handled by threads at the same time, two adds of
\* one ip handled at the same time never both succeed, and the stored list
\* never has two devices with one ip.
C18_ConcurrentAddsUnique ==
    /\ \A i, j \in 1..Len(StoredConc) :
          i # j => StoredConc[i].ip # StoredConc[j].ip
    /\ \A t, u \in Threads :
          (t # u /\ Added(t) /\ Added(u) /\ u \in thr[t].during)
              => thr[t].body[1].ip # thr[u].body[1].ip

\* C19: once every request handled at the same time has been answered, the
\* stored list holds each device whose add was answered 201 and that no
\* remove answered 200 has removed, and holds no device whose remove was
\* answered 200.
C19_NoAckedMutationLost ==
    (\A t \in Threads : ~Active(t)) =>
        /\ \A t \in Threads :
              Added(t) =>
                  \/ \E i \in 1..Len(StoredConc) : StoredConc[i] = thr[t].body[1]
                  \/ \E u \in Threads :
                        Deleted(u) /\ thr[u].req.id = thr[t].body[1].id
        /\ \A t \in Threads :
              Deleted(t) => thr[t].req.id \notin IdsOf(StoredConc)

====
